---- MODULE Spec2Model ----
(***************************************************************************)
(* NoCopyRingFifo<T> (no_copy_ring_fifo/no_copy_ring_fifo.h): a fixed-size *)
(* ring FIFO that hands out views (spans) into its storage.  The model     *)
(* keeps the class's fields, one action per public member function, and    *)
(* the caller's side of the protocol as the unit tests exercise it (the    *)
(* caller writes into the views Reserve returned and compares what         *)
(* ReadBlock returned).                                                    *)
(***************************************************************************)
EXTENDS Integers, Sequences, FiniteSets, TLC

\* Largest FIFO size the constructor is called with.
MaxCapacity == 3

\* Largest number of elements reserved between two Resets.
MaxLog == 5

VARIABLES
    maxSize,        \* const size_t maxSize; also _ringBuffer.size()
    _ringBuffer,    \* std::vector<T>, indexed 0 .. maxSize-1
    _readIndex,
    _writeIndex,
    _reserved,
    _committed,
    ret,            \* the last call: member function, argument, outcome, block returned
    inDataBlock,    \* the caller's block from Reserve that it has not filled yet
    resvLog,        \* slots handed out by Reserve since the last Reset, in order
    nCommitted,     \* elements committed since the last Reset
    nRead,          \* elements read since the last Reset
    filled,         \* since the last Reset the caller filled every block before
                    \* reserving the next one or committing any of its slots
    written,        \* values the caller wrote since the last Reset, in order (kept while filled)
    readLog,        \* values ReadBlock handed back since the last Reset, in order (kept while filled)
    scen,           \* progress of the Wraparound test's call sequence
    outDataBlock    \* after a successful Reserve: the block the caller got from the
                    \* successful ReadBlock it called right before it (else empty)

fifoVars == <<maxSize, _ringBuffer, _readIndex, _writeIndex, _reserved, _committed>>
vars == <<maxSize, _ringBuffer, _readIndex, _writeIndex, _reserved, _committed, ret,
          inDataBlock, resvLog, nCommitted, nRead, written, readLog, filled, scen,
          outDataBlock>>

----------------------------------------------------------------------------
\* std::span<T> over _ringBuffer: the sequence of the slots it views.

\* std::span<T>()
EmptySpan == << >>

\* _ringBufferSpan.subspan(offset, count)
Subspan(offset, count) == [k \in 1..count |-> offset + (k - 1)]

\* DataBlock(): both spans empty
DataBlock0 == [spans |-> [i \in 0..1 |-> EmptySpan]]

\* DataBlock(span0)
DataBlock1(span0) == [spans |-> [i \in 0..1 |-> IF i = 0 THEN span0 ELSE EmptySpan]]

\* DataBlock(span0, span1)
DataBlock2(span0, span1) == [spans |-> [i \in 0..1 |-> IF i = 0 THEN span0 ELSE span1]]

\* isSplit() that looks at the first view, as isValid() does.
isSplit_ChecksFirstView(b) == (b.spans[0] = EmptySpan) = FALSE

isSplit(b) == (b.spans[1] = EmptySpan) = FALSE

isValid(b) == (b.spans[0] = EmptySpan) = FALSE

\* _ringBuffer.size()
RingBufferSize == maxSize

\* ReservableSize() that forgets the committed elements.
ReservableSize_IgnoresCommitted == RingBufferSize - _reserved

ReservableSize == RingBufferSize - (_reserved + _committed)

\* CommitableSize() that reports everything not committed yet.
CommitableSize_AllUncommitted == RingBufferSize - _committed

CommitableSize == _reserved

ReadableSize == _committed

\* GetDataBlock whose index parameter is taken by value: the caller's index
\* is never advanced.
GetDataBlock_IndexByValue(index, size) ==
    IF size > RingBufferSize
    THEN [status |-> "overflow_error", index |-> index, block |-> DataBlock0]
    ELSE IF size = 0
    THEN [status |-> "ok", index |-> index, block |-> DataBlock0]
    ELSE LET remainingBufferSize == RingBufferSize - index
             oldIndex == index
             newIndex == (index + size) % RingBufferSize
         IN  IF size > remainingBufferSize
             THEN [status |-> "ok", index |-> oldIndex,
                   block |-> DataBlock2(Subspan(oldIndex, remainingBufferSize),
                                        Subspan(0, newIndex))]
             ELSE [status |-> "ok", index |-> oldIndex,
                   block |-> DataBlock1(Subspan(oldIndex, size))]

\* GetDataBlock that hands out the two views of a split block in the wrong order.
GetDataBlock_ViewsSwapped(index, size) ==
    IF size > RingBufferSize
    THEN [status |-> "overflow_error", index |-> index, block |-> DataBlock0]
    ELSE IF size = 0
    THEN [status |-> "ok", index |-> index, block |-> DataBlock0]
    ELSE LET remainingBufferSize == RingBufferSize - index
             oldIndex == index
             newIndex == (index + size) % RingBufferSize
         IN  IF size > remainingBufferSize
             THEN [status |-> "ok", index |-> newIndex,
                   block |-> DataBlock2(Subspan(0, newIndex),
                                        Subspan(oldIndex, remainingBufferSize))]
             ELSE [status |-> "ok", index |-> newIndex,
                   block |-> DataBlock1(Subspan(oldIndex, size))]

\* GetDataBlock whose size guard is off by one: a block of the whole buffer
\* is refused.
GetDataBlock_GuardOffByOne(index, size) ==
    IF size >= RingBufferSize
    THEN [status |-> "overflow_error", index |-> index, block |-> DataBlock0]
    ELSE IF size = 0
    THEN [status |-> "ok", index |-> index, block |-> DataBlock0]
    ELSE LET remainingBufferSize == RingBufferSize - index
             oldIndex == index
             newIndex == (index + size) % RingBufferSize
         IN  IF size > remainingBufferSize
             THEN [status |-> "ok", index |-> newIndex,
                   block |-> DataBlock2(Subspan(oldIndex, remainingBufferSize),
                                        Subspan(0, newIndex))]
             ELSE [status |-> "ok", index |-> newIndex,
                   block |-> DataBlock1(Subspan(oldIndex, size))]

\* GetDataBlock whose second view is one element too long.
GetDataBlock_SecondViewTooLong(index, size) ==
    IF size > RingBufferSize
    THEN [status |-> "overflow_error", index |-> index, block |-> DataBlock0]
    ELSE IF size = 0
    THEN [status |-> "ok", index |-> index, block |-> DataBlock0]
    ELSE LET remainingBufferSize == RingBufferSize - index
             oldIndex == index
             newIndex == (index + size) % RingBufferSize
         IN  IF size > remainingBufferSize
             THEN [status |-> "ok", index |-> newIndex,
                   block |-> DataBlock2(Subspan(oldIndex, remainingBufferSize),
                                        Subspan(0, newIndex + 1))]
             ELSE [status |-> "ok", index |-> newIndex,
                   block |-> DataBlock1(Subspan(oldIndex, size))]

\* GetDataBlock that advances the index without the modulo: a block that ends
\* at the end of the buffer leaves the index at the buffer's size.
GetDataBlock_NoWrapOnExactFit(index, size) ==
    IF size > RingBufferSize
    THEN [status |-> "overflow_error", index |-> index, block |-> DataBlock0]
    ELSE IF size = 0
    THEN [status |-> "ok", index |-> index, block |-> DataBlock0]
    ELSE LET remainingBufferSize == RingBufferSize - index
             oldIndex == index
             newIndex == IF size > remainingBufferSize
                         THEN size - remainingBufferSize
                         ELSE index + size
         IN  IF size > remainingBufferSize
             THEN [status |-> "ok", index |-> newIndex,
                   block |-> DataBlock2(Subspan(oldIndex, remainingBufferSize),
                                        Subspan(0, newIndex))]
             ELSE [status |-> "ok", index |-> newIndex,
                   block |-> DataBlock1(Subspan(oldIndex, size))]

\* GetDataBlock(index, size): the exception thrown (or "ok"), the value left
\* in the index passed by reference, and the block returned.
GetDataBlock(index, size) ==
    IF size > RingBufferSize
    THEN [status |-> "overflow_error", index |-> index, block |-> DataBlock0]
    ELSE IF size = 0
    THEN [status |-> "ok", index |-> index, block |-> DataBlock0]
    ELSE LET remainingBufferSize == RingBufferSize - index
             oldIndex == index
             newIndex == (index + size) % RingBufferSize
         IN  IF size > remainingBufferSize
             THEN [status |-> "ok", index |-> newIndex,
                   block |-> DataBlock2(Subspan(oldIndex, remainingBufferSize),
                                        Subspan(0, newIndex))]
             ELSE [status |-> "ok", index |-> newIndex,
                   block |-> DataBlock1(Subspan(oldIndex, size))]

----------------------------------------------------------------------------
\* The caller's view of a block: view 0 followed by view 1.
BlockSlots(b) == b.spans[0] \o b.spans[1]

BlockLen(b) == Len(b.spans[0]) + Len(b.spans[1])

\* The elements a block views, read through the spans.
BlockData(b) == [k \in 1..BlockLen(b) |-> _ringBuffer[BlockSlots(b)[k]]]

\* Arguments the caller passes: everything up to one more than the FIFO holds.
Sizes == 0..(maxSize + 1)

Call(op, size, status, block) == [op |-> op, size |-> size, status |-> status, block |-> block]

\* The Wraparound test: Reset, Reserve(max-1), Commit(max-1), ReadBlock(max-1),
\* Reserve(k), Commit(k), ReadBlock(k); phase counts the calls made so far.
ScenOff == [phase |-> 0 - 1, k |-> 0]

ScenStart == [phase |-> 0, k |-> 0]

ScenNext(op, size, ok) ==
    IF ok = FALSE \/ scen.phase < 0 THEN ScenOff
    ELSE IF scen.phase = 0 /\ op = "Reserve" /\ size = maxSize - 1 THEN [phase |-> 1, k |-> 0]
    ELSE IF scen.phase = 1 /\ op = "Commit" /\ size = maxSize - 1 THEN [phase |-> 2, k |-> 0]
    ELSE IF scen.phase = 2 /\ op = "ReadBlock" /\ size = maxSize - 1 THEN [phase |-> 3, k |-> 0]
    ELSE IF scen.phase = 3 /\ op = "Reserve" /\ size >= 2 THEN [phase |-> 4, k |-> size]
    ELSE IF scen.phase = 4 /\ op = "Commit" /\ size = scen.k THEN [phase |-> 5, k |-> size]
    ELSE IF scen.phase = 5 /\ op = "ReadBlock" /\ size = scen.k THEN [phase |-> 6, k |-> size]
    ELSE ScenOff

----------------------------------------------------------------------------
\* NoCopyRingFifo(size): the vector is value-initialised, the indices and
\* counters start at zero.
Init ==
    /\ maxSize \in 0..MaxCapacity
    /\ _ringBuffer = [i \in 0..(maxSize - 1) |-> 0]
    /\ _readIndex = 0
    /\ _writeIndex = 0
    /\ _reserved = 0
    /\ _committed = 0
    /\ ret = Call("NoCopyRingFifo", maxSize, "ok", DataBlock0)
    /\ inDataBlock = DataBlock0
    /\ resvLog = << >>
    /\ nCommitted = 0
    /\ nRead = 0
    /\ written = << >>
    /\ readLog = << >>
    /\ filled = TRUE
    /\ scen = ScenStart
    /\ outDataBlock = DataBlock0

\* Reserve whose space check is off by one: a request for exactly the free
\* space is refused.
Reserve_CheckOffByOne(size) ==
    IF size >= ReservableSize
    THEN /\ ret' = Call("Reserve", size, "overflow_error", DataBlock0)
         /\ outDataBlock' = DataBlock0
         /\ scen' = ScenNext("Reserve", size, FALSE)
         /\ UNCHANGED <<fifoVars, inDataBlock, resvLog, nCommitted, nRead, written, readLog, filled>>
    ELSE LET r == GetDataBlock(_writeIndex, size)
         IN  /\ _reserved' = _reserved + size
             /\ _writeIndex' = r.index
             /\ ret' = Call("Reserve", size, r.status, r.block)
             /\ outDataBlock' = IF r.status = "ok" /\ ret.op = "ReadBlock" /\ ret.status = "ok"
                                THEN ret.block ELSE DataBlock0
             /\ scen' = ScenNext("Reserve", size, r.status = "ok")
             /\ IF r.status = "ok" /\ size > 0
                THEN /\ inDataBlock' = r.block
                     /\ resvLog' = resvLog \o BlockSlots(r.block)
                     /\ filled' = (filled /\ BlockLen(inDataBlock) = 0)
                ELSE UNCHANGED <<inDataBlock, resvLog, filled>>
             /\ UNCHANGED <<maxSize, _ringBuffer, _readIndex, _committed,
                            nCommitted, nRead, written, readLog>>

\* Reserve that passes the read index to GetDataBlock.
Reserve_UsesReadIndex(size) ==
    IF size > ReservableSize
    THEN /\ ret' = Call("Reserve", size, "overflow_error", DataBlock0)
         /\ outDataBlock' = DataBlock0
         /\ scen' = ScenNext("Reserve", size, FALSE)
         /\ UNCHANGED <<fifoVars, inDataBlock, resvLog, nCommitted, nRead, written, readLog, filled>>
    ELSE LET r == GetDataBlock(_readIndex, size)
         IN  /\ _reserved' = _reserved + size
             /\ _readIndex' = r.index
             /\ ret' = Call("Reserve", size, r.status, r.block)
             /\ outDataBlock' = IF r.status = "ok" /\ ret.op = "ReadBlock" /\ ret.status = "ok"
                                THEN ret.block ELSE DataBlock0
             /\ scen' = ScenNext("Reserve", size, r.status = "ok")
             /\ IF r.status = "ok" /\ size > 0
                THEN /\ inDataBlock' = r.block
                     /\ resvLog' = resvLog \o BlockSlots(r.block)
                     /\ filled' = (filled /\ BlockLen(inDataBlock) = 0)
                ELSE UNCHANGED <<inDataBlock, resvLog, filled>>
             /\ UNCHANGED <<maxSize, _ringBuffer, _writeIndex, _committed,
                            nCommitted, nRead, written, readLog>>

\* DataBlock Reserve(size_t size)
Reserve(size) ==
    IF size > ReservableSize
    THEN /\ ret' = Call("Reserve", size, "overflow_error", DataBlock0)
         /\ outDataBlock' = DataBlock0
         /\ scen' = ScenNext("Reserve", size, FALSE)
         /\ UNCHANGED <<fifoVars, inDataBlock, resvLog, nCommitted, nRead, written, readLog, filled>>
    ELSE LET r == GetDataBlock(_writeIndex, size)
         IN  /\ _reserved' = _reserved + size
             /\ _writeIndex' = r.index
             /\ ret' = Call("Reserve", size, r.status, r.block)
             /\ outDataBlock' = IF r.status = "ok" /\ ret.op = "ReadBlock" /\ ret.status = "ok"
                                THEN ret.block ELSE DataBlock0
             /\ scen' = ScenNext("Reserve", size, r.status = "ok")
             /\ IF r.status = "ok" /\ size > 0
                THEN /\ inDataBlock' = r.block
                     /\ resvLog' = resvLog \o BlockSlots(r.block)
                     /\ filled' = (filled /\ BlockLen(inDataBlock) = 0)
                ELSE UNCHANGED <<inDataBlock, resvLog, filled>>
             /\ UNCHANGED <<maxSize, _ringBuffer, _readIndex, _committed,
                            nCommitted, nRead, written, readLog>>

\* Commit that adds to _committed before it checks the size.
Commit_UpdateBeforeCheck(size) ==
    IF size > CommitableSize
    THEN /\ _committed' = _committed + size
         /\ ret' = Call("Commit", size, "overflow_error", DataBlock0)
         /\ outDataBlock' = DataBlock0
         /\ scen' = ScenNext("Commit", size, FALSE)
         /\ UNCHANGED <<maxSize, _ringBuffer, _readIndex, _writeIndex, _reserved,
                        inDataBlock, resvLog, nCommitted, nRead, written, readLog, filled>>
    ELSE /\ _committed' = _committed + size
         /\ _reserved' = _reserved - size
         /\ ret' = Call("Commit", size, "ok", DataBlock0)
         /\ outDataBlock' = DataBlock0
         /\ scen' = ScenNext("Commit", size, TRUE)
         /\ nCommitted' = nCommitted + size
         /\ filled' = (filled /\ size <= _reserved - BlockLen(inDataBlock))
         /\ UNCHANGED <<maxSize, _ringBuffer, _readIndex, _writeIndex,
                        inDataBlock, resvLog, nRead, written, readLog>>

\* Commit that does not take the committed elements off _reserved.
Commit_KeepsReserved(size) ==
    IF size > CommitableSize
    THEN /\ ret' = Call("Commit", size, "overflow_error", DataBlock0)
         /\ outDataBlock' = DataBlock0
         /\ scen' = ScenNext("Commit", size, FALSE)
         /\ UNCHANGED <<fifoVars, inDataBlock, resvLog, nCommitted, nRead, written, readLog, filled>>
    ELSE /\ _committed' = _committed + size
         /\ _reserved' = _reserved
         /\ ret' = Call("Commit", size, "ok", DataBlock0)
         /\ outDataBlock' = DataBlock0
         /\ scen' = ScenNext("Commit", size, TRUE)
         /\ nCommitted' = nCommitted + size
         /\ filled' = (filled /\ size <= _reserved - BlockLen(inDataBlock))
         /\ UNCHANGED <<maxSize, _ringBuffer, _readIndex, _writeIndex,
                        inDataBlock, resvLog, nRead, written, readLog>>

\* void Commit(size_t size)
Commit(size) ==
    IF size > CommitableSize
    THEN /\ ret' = Call("Commit", size, "overflow_error", DataBlock0)
         /\ outDataBlock' = DataBlock0
         /\ scen' = ScenNext("Commit", size, FALSE)
         /\ UNCHANGED <<fifoVars, inDataBlock, resvLog, nCommitted, nRead, written, readLog, filled>>
    ELSE /\ _committed' = _committed + size
         /\ _reserved' = _reserved - size
         /\ ret' = Call("Commit", size, "ok", DataBlock0)
         /\ outDataBlock' = DataBlock0
         /\ scen' = ScenNext("Commit", size, TRUE)
         /\ nCommitted' = nCommitted + size
         /\ filled' = (filled /\ size <= _reserved - BlockLen(inDataBlock))
         /\ UNCHANGED <<maxSize, _ringBuffer, _readIndex, _writeIndex,
                        inDataBlock, resvLog, nRead, written, readLog>>

\* ReadBlock that checks the size against everything in the FIFO, reserved
\* elements included.
ReadBlock_CountsReserved(size) ==
    IF size > _committed + _reserved
    THEN /\ ret' = Call("ReadBlock", size, "underflow_error", DataBlock0)
         /\ outDataBlock' = DataBlock0
         /\ scen' = ScenNext("ReadBlock", size, FALSE)
         /\ UNCHANGED <<fifoVars, inDataBlock, resvLog, nCommitted, nRead, written, readLog, filled>>
    ELSE LET r == GetDataBlock(_readIndex, size)
         IN  /\ _committed' = _committed - size
             /\ _readIndex' = r.index
             /\ ret' = Call("ReadBlock", size, r.status, r.block)
             /\ outDataBlock' = DataBlock0
             /\ scen' = ScenNext("ReadBlock", size, r.status = "ok")
             /\ IF r.status = "ok"
                THEN /\ readLog' = IF filled THEN readLog \o BlockData(r.block) ELSE readLog
                     /\ nRead' = nRead + size
                ELSE UNCHANGED <<readLog, nRead>>
             /\ UNCHANGED <<maxSize, _ringBuffer, _writeIndex, _reserved,
                            inDataBlock, resvLog, nCommitted, written, filled>>

\* ReadBlock that does not take the elements it hands out off _committed.
ReadBlock_KeepsCommitted(size) ==
    IF size > _committed
    THEN /\ ret' = Call("ReadBlock", size, "underflow_error", DataBlock0)
         /\ outDataBlock' = DataBlock0
         /\ scen' = ScenNext("ReadBlock", size, FALSE)
         /\ UNCHANGED <<fifoVars, inDataBlock, resvLog, nCommitted, nRead, written, readLog, filled>>
    ELSE LET r == GetDataBlock(_readIndex, size)
         IN  /\ _committed' = _committed
             /\ _readIndex' = r.index
             /\ ret' = Call("ReadBlock", size, r.status, r.block)
             /\ outDataBlock' = DataBlock0
             /\ scen' = ScenNext("ReadBlock", size, r.status = "ok")
             /\ IF r.status = "ok"
                THEN /\ readLog' = IF filled THEN readLog \o BlockData(r.block) ELSE readLog
                     /\ nRead' = nRead + size
                ELSE UNCHANGED <<readLog, nRead>>
             /\ UNCHANGED <<maxSize, _ringBuffer, _writeIndex, _reserved,
                            inDataBlock, resvLog, nCommitted, written, filled>>

\* ReadBlock whose size check is off by one: a read of everything committed
\* is refused.
ReadBlock_CheckOffByOne(size) ==
    IF size >= _committed
    THEN /\ ret' = Call("ReadBlock", size, "underflow_error", DataBlock0)
         /\ outDataBlock' = DataBlock0
         /\ scen' = ScenNext("ReadBlock", size, FALSE)
         /\ UNCHANGED <<fifoVars, inDataBlock, resvLog, nCommitted, nRead, written, readLog, filled>>
    ELSE LET r == GetDataBlock(_readIndex, size)
         IN  /\ _committed' = _committed - size
             /\ _readIndex' = r.index
             /\ ret' = Call("ReadBlock", size, r.status, r.block)
             /\ outDataBlock' = DataBlock0
             /\ scen' = ScenNext("ReadBlock", size, r.status = "ok")
             /\ IF r.status = "ok"
                THEN /\ readLog' = IF filled THEN readLog \o BlockData(r.block) ELSE readLog
                     /\ nRead' = nRead + size
                ELSE UNCHANGED <<readLog, nRead>>
             /\ UNCHANGED <<maxSize, _ringBuffer, _writeIndex, _reserved,
                            inDataBlock, resvLog, nCommitted, written, filled>>

\* DataBlock ReadBlock(size_t size)
ReadBlock(size) ==
    IF size > _committed
    THEN /\ ret' = Call("ReadBlock", size, "underflow_error", DataBlock0)
         /\ outDataBlock' = DataBlock0
         /\ scen' = ScenNext("ReadBlock", size, FALSE)
         /\ UNCHANGED <<fifoVars, inDataBlock, resvLog, nCommitted, nRead, written, readLog, filled>>
    ELSE LET r == GetDataBlock(_readIndex, size)
         IN  /\ _committed' = _committed - size
             /\ _readIndex' = r.index
             /\ ret' = Call("ReadBlock", size, r.status, r.block)
             /\ outDataBlock' = DataBlock0
             /\ scen' = ScenNext("ReadBlock", size, r.status = "ok")
             /\ IF r.status = "ok"
                THEN /\ readLog' = IF filled THEN readLog \o BlockData(r.block) ELSE readLog
                     /\ nRead' = nRead + size
                ELSE UNCHANGED <<readLog, nRead>>
             /\ UNCHANGED <<maxSize, _ringBuffer, _writeIndex, _reserved,
                            inDataBlock, resvLog, nCommitted, written, filled>>

\* Reset that leaves _committed as it is.
Reset_KeepsCommitted ==
    /\ _readIndex' = 0
    /\ _writeIndex' = 0
    /\ _reserved' = 0
    /\ ret' = Call("Reset", 0, "ok", DataBlock0)
    /\ outDataBlock' = DataBlock0
    /\ inDataBlock' = DataBlock0
    /\ resvLog' = << >>
    /\ nCommitted' = 0
    /\ nRead' = 0
    /\ written' = << >>
    /\ readLog' = << >>
    /\ filled' = TRUE
    /\ scen' = ScenStart
    /\ UNCHANGED <<maxSize, _ringBuffer, _committed>>

\* Reset that leaves _readIndex as it is.
Reset_KeepsReadIndex ==
    /\ _writeIndex' = 0
    /\ _reserved' = 0
    /\ _committed' = 0
    /\ ret' = Call("Reset", 0, "ok", DataBlock0)
    /\ outDataBlock' = DataBlock0
    /\ inDataBlock' = DataBlock0
    /\ resvLog' = << >>
    /\ nCommitted' = 0
    /\ nRead' = 0
    /\ written' = << >>
    /\ readLog' = << >>
    /\ filled' = TRUE
    /\ scen' = ScenStart
    /\ UNCHANGED <<maxSize, _ringBuffer, _readIndex>>

\* void Reset(void)
Reset ==
    /\ _readIndex' = 0
    /\ _writeIndex' = 0
    /\ _reserved' = 0
    /\ _committed' = 0
    /\ ret' = Call("Reset", 0, "ok", DataBlock0)
    /\ outDataBlock' = DataBlock0
    /\ inDataBlock' = DataBlock0
    /\ resvLog' = << >>
    /\ nCommitted' = 0
    /\ nRead' = 0
    /\ written' = << >>
    /\ readLog' = << >>
    /\ filled' = TRUE
    /\ scen' = ScenStart
    /\ UNCHANGED <<maxSize, _ringBuffer>>

\* The caller fills the views Reserve returned, view 0 then view 1, from its
\* test vector: the p-th element reserved since the last Reset gets the value p.
WriteBlock ==
    /\ BlockLen(inDataBlock) > 0
    /\ LET slots == BlockSlots(inDataBlock)
           vals == [k \in 1..Len(slots) |-> (Len(resvLog) - Len(slots)) + k]
       IN  /\ _ringBuffer' = [i \in DOMAIN _ringBuffer |->
                                IF \E k \in 1..Len(slots) : slots[k] = i
                                THEN vals[CHOOSE k \in 1..Len(slots) : slots[k] = i]
                                ELSE _ringBuffer[i]]
           /\ written' = IF filled THEN written \o vals ELSE written
    /\ inDataBlock' = DataBlock0
    /\ UNCHANGED <<maxSize, _readIndex, _writeIndex, _reserved, _committed, ret,
                   resvLog, nCommitted, nRead, readLog, filled, scen, outDataBlock>>

ReserveCall == \E size \in Sizes :
    /\ size <= ReservableSize => Len(resvLog) + size <= MaxLog
    /\ Reserve(size)

CommitCall == \E size \in Sizes : Commit(size)

ReadBlockCall == \E size \in Sizes : ReadBlock(size)

Next == ReserveCall \/ CommitCall \/ ReadBlockCall \/ Reset \/ WriteBlock

Spec == Init /\ [][Next]_vars

----------------------------------------------------------------------------
\* A caller that never calls Reset and keeps draining the FIFO, as the
\* Wraparound test does after each Reserve: it commits everything that is
\* reserved and reads everything that is committed.

\* fifo.Commit(fifo.CommitableSize())
CommitAll == Commit(CommitableSize)

\* fifo.ReadBlock(fifo.ReadableSize())
ReadAll == ReadBlock(ReadableSize)

NextDrain == ReserveCall \/ WriteBlock \/ CommitAll \/ ReadAll

FairSpec == Init /\ [][NextDrain]_vars /\ WF_vars(CommitAll) /\ WF_vars(ReadAll)

----------------------------------------------------------------------------
\* Regions of the ring, as sequences of slots.

Range(seq) == {seq[k] : k \in 1..Len(seq)}

\* n slots walking forward from start, wrapping at the end of the buffer.
Walk(start, n) == [k \in 1..n |-> (start + (k - 1)) % maxSize]

\* Walking forward from _readIndex: the readable slots, then the reserved
\* slots, then the free slots.
CommittedSeq == Walk(_readIndex, _committed)

ReservedSeq == Walk(_readIndex + _committed, _reserved)

FreeSeq == Walk(_readIndex + _committed + _reserved, maxSize - (_reserved + _committed))

\* The same regions from the blocks Reserve handed out: the slots committed
\* and not read yet, and the slots reserved and not committed yet.
Part(seq, from, to) == [k \in 1..(to - from) |-> seq[from + k]]

HandedOutCommitted == Part(resvLog, nRead, nCommitted)

HandedOutReserved == Part(resvLog, nCommitted, Len(resvLog))

IsPrefix(s, t) == Len(s) <= Len(t) /\ \A k \in 1..Len(s) : s[k] = t[k]

CallFailed(r) == r.status # "ok"

----------------------------------------------------------------------------
\* C1: after every call (successful or failing, any argument, any capacity)
\* reservedCount + committedCount <= capacity.  The counters are size_t: a
\* negative value here is a wrapped, huge one there, so it counts as exceeding.
C1_CountsWithinCapacity ==
    /\ _reserved >= 0
    /\ _committed >= 0
    /\ _reserved + _committed <= maxSize

\* A full FIFO holding both reserved and committed elements has just refused a Reserve.
C1_Witness ==
    /\ maxSize >= 2
    /\ _reserved > 0
    /\ _committed > 0
    /\ _reserved + _committed = maxSize
    /\ ret.op = "Reserve"
    /\ CallFailed(ret)

\* C2 (state part): from _readIndex the buffer is split into _committed
\* readable slots, then _reserved reserved slots, then the free slots; the
\* three regions are disjoint, cover the buffer, the free region starts at
\* _writeIndex, and the readable and reserved regions are the slots Reserve
\* handed out that are unread and uncommitted.
C2_PartitionInv ==
    /\ _committed >= 0 /\ _reserved >= 0 /\ _reserved + _committed <= maxSize
    /\ Range(CommittedSeq) \cap Range(ReservedSeq) = {}
    /\ Range(CommittedSeq) \cap Range(FreeSeq) = {}
    /\ Range(ReservedSeq) \cap Range(FreeSeq) = {}
    /\ Range(CommittedSeq) \cup Range(ReservedSeq) \cup Range(FreeSeq) = 0..(maxSize - 1)
    /\ Cardinality(Range(CommittedSeq)) = _committed
    /\ Cardinality(Range(ReservedSeq)) = _reserved
    /\ maxSize > 0 => _writeIndex = (_readIndex + _committed + _reserved) % maxSize
    /\ nRead <= nCommitted /\ nCommitted <= Len(resvLog)
    /\ CommittedSeq = HandedOutCommitted
    /\ ReservedSeq = HandedOutReserved

\* C2 (step part): the slots a successful Reserve returns are disjoint from
\* the slots committed-but-unread and reserved-but-uncommitted at the call.
C2_ReserveDisjoint ==
    (ret'.op = "Reserve" /\ ret'.status = "ok" /\ ReserveCall) =>
        /\ Range(BlockSlots(ret'.block)) \cap Range(CommittedSeq) = {}
        /\ Range(BlockSlots(ret'.block)) \cap Range(ReservedSeq) = {}
        /\ Range(BlockSlots(ret'.block)) \cap Range(HandedOutCommitted) = {}
        /\ Range(BlockSlots(ret'.block)) \cap Range(HandedOutReserved) = {}
        /\ Range(BlockSlots(ret'.block)) \subseteq Range(FreeSeq)

\* C2: the buffer is always partitioned into readable, reserved and free
\* slots, and Reserve only hands out free slots.
C2_Partition == [](C2_PartitionInv) /\ [][C2_ReserveDisjoint]_vars

\* Reserve has returned a split block that takes all the slots the unread
\* committed elements leave.
C2_Witness ==
    /\ ret.op = "Reserve"
    /\ ret.status = "ok"
    /\ isSplit(ret.block)
    /\ _committed > 0
    /\ _reserved = BlockLen(ret.block)
    /\ _reserved + _committed = maxSize

\* C3: when the caller fills the view(s) of each Reserve (view 0, then view 1)
\* before committing them, the elements ReadBlock returns, concatenated over
\* the calls since the last Reset, are a prefix of the values written in
\* reservation order.
C3_FifoOrder ==
    filled => /\ IsPrefix(readLog, written)
              /\ Len(readLog) = nRead

\* A split block has been read back after the indices wrapped, with reads,
\* commits and reserves of different sizes.
C3_Witness ==
    /\ filled
    /\ ret.op = "ReadBlock"
    /\ ret.status = "ok"
    /\ isSplit(ret.block)
    /\ Len(readLog) > maxSize
    /\ Len(readLog) < Len(written)
    /\ _committed > 0

\* C4: a failing Reserve, Commit or ReadBlock leaves the indices, the counters
\* and the buffer contents as they were.
C4_FailureStep ==
    (CallFailed(ret') /\ (ReserveCall \/ CommitCall \/ ReadBlockCall))
        => UNCHANGED <<maxSize, _ringBuffer, _readIndex, _writeIndex, _reserved, _committed>>

\* C4: every failing call leaves the state unchanged.
C4_FailureKeepsState == [][C4_FailureStep]_vars

\* A ReadBlock has been refused on a FIFO with moved indices and outstanding
\* reserved and committed elements.
C4_Witness ==
    /\ ret.op = "ReadBlock"
    /\ CallFailed(ret)
    /\ _readIndex > 0
    /\ _reserved > 0
    /\ _committed > 0

\* C5: Reserve(n) fails, with overflow_error, exactly when
\* n > capacity - (reservedCount + committedCount), which is ReservableSize();
\* a refused Reserve leaves ReservableSize() as it was, so Reserve(C+1) on a
\* fresh FIFO of capacity C fails and leaves ReservableSize() == C, and
\* Reserve(1) on a fully reserved FIFO fails.
C5_ReserveStep ==
    (ret'.op = "Reserve" /\ ReserveCall) =>
        /\ ReservableSize = maxSize - (_reserved + _committed)
        /\ CallFailed(ret') <=> (ret'.size > maxSize - (_reserved + _committed))
        /\ CallFailed(ret') => /\ ret'.status = "overflow_error"
                               /\ ReservableSize' = ReservableSize
        /\ (ret'.size = 1 /\ _reserved = maxSize) => CallFailed(ret')
        /\ (ret'.size = maxSize + 1 /\ _reserved = 0 /\ _committed = 0) =>
              /\ CallFailed(ret')
              /\ ReservableSize' = maxSize

\* C5: Reserve(n) fails with an overflow error iff n > ReservableSize().
C5_ReserveFailsIff == [][C5_ReserveStep]_vars

\* Reserve(1) has been refused by a FIFO whose every slot is reserved.
C5_Witness ==
    /\ maxSize >= 2
    /\ ret.op = "Reserve"
    /\ ret.size = 1
    /\ ret.status = "overflow_error"
    /\ _reserved = maxSize

\* C6 (step part): Commit(n) fails, with the error the Reset test expects
\* (overflow_error), exactly when n > reservedCount, which is CommitableSize();
\* Commit(1) right after Reset fails.
C6_CommitStep ==
    (ret'.op = "Commit" /\ CommitCall) =>
        /\ CommitableSize = _reserved
        /\ CallFailed(ret') <=> (ret'.size > _reserved)
        /\ CallFailed(ret') => ret'.status = "overflow_error"
        /\ (ret.op = "Reset" /\ ret'.size = 1) => CallFailed(ret')

\* C6 (state part): since the last Reset no more has been committed than
\* has been reserved, and what is commitable is the difference.
C6_CommitInv ==
    /\ nCommitted <= Len(resvLog)
    /\ _reserved = Len(resvLog) - nCommitted

\* C6: Commit(n) fails iff n > CommitableSize(), so cumulative commits never
\* exceed cumulative reserves.
C6_CommitFailsIff == [](C6_CommitInv) /\ [][C6_CommitStep]_vars

\* Commit(1) has been refused after everything reserved had been committed.
C6_Witness ==
    /\ ret.op = "Commit"
    /\ ret.size = 1
    /\ ret.status = "overflow_error"
    /\ nCommitted > 0
    /\ nCommitted = Len(resvLog)

\* C7: ReadBlock(n) fails, with underflow_error, exactly when
\* n > committedCount, which is ReadableSize(); the block of a successful
\* ReadBlock holds n slots, none of them reserved and not yet committed.
C7_ReadStep ==
    (ret'.op = "ReadBlock" /\ ReadBlockCall) =>
        /\ ReadableSize = _committed
        /\ CallFailed(ret') <=> (ret'.size > _committed)
        /\ CallFailed(ret') => ret'.status = "underflow_error"
        /\ (ret'.size = 1 /\ _committed = 0) => CallFailed(ret')
        /\ ret'.status = "ok" =>
              /\ BlockLen(ret'.block) = ret'.size
              /\ Range(BlockSlots(ret'.block)) \cap Range(ReservedSeq) = {}
              /\ Range(BlockSlots(ret'.block)) \cap Range(HandedOutReserved) = {}

\* C7: ReadBlock(n) fails with an underflow error iff n > ReadableSize().
C7_ReadFailsIff == [][C7_ReadStep]_vars

\* ReadBlock(1) has been refused by a FIFO that was read empty and holds
\* reserved elements nobody committed yet.
C7_Witness ==
    /\ ret.op = "ReadBlock"
    /\ ret.size = 1
    /\ ret.status = "underflow_error"
    /\ nRead > 0
    /\ _committed = 0
    /\ _reserved > 0

\* C8: a step that makes ReadableSize() grow is a successful Commit(n), n > 0,
\* that grows it by n, and the slots that became readable are the n oldest
\* slots Reserve handed out and nobody committed yet, in reservation order,
\* which directly follow the readable region.
C8_GrowStep ==
    (ReadableSize' > ReadableSize) =>
        /\ CommitCall
        /\ ret'.op = "Commit"
        /\ ret'.status = "ok"
        /\ ret'.size > 0
        /\ ReadableSize' = ReadableSize + ret'.size
        /\ nCommitted + ret'.size <= Len(resvLog)
        /\ CommittedSeq' = CommittedSeq \o Part(resvLog, nCommitted, nCommitted + ret'.size)
        /\ CommittedSeq' = CommittedSeq \o Part(ReservedSeq, 0, ret'.size)

\* C8: Commit is the only way data becomes readable.
C8_OnlyCommitMakesReadable == [][C8_GrowStep]_vars

\* A Commit has made part of the reserved slots readable, next to slots
\* that were readable already.
C8_Witness ==
    /\ ret.op = "Commit"
    /\ ret.status = "ok"
    /\ ret.size > 0
    /\ _committed > ret.size
    /\ _reserved > 0

\* C9 (state part): in the Wraparound sequence on a FIFO of capacity C,
\* Reserve(k) returns slot C-1 as first view and slots 0..k-2 as second view,
\* valid and split; after Commit(k), ReadBlock(k) returns views of lengths 1
\* and k-1.
C9_SplitInv ==
    /\ scen.phase = 4 =>
          /\ ret.op = "Reserve" /\ ret.status = "ok" /\ ret.size = scen.k
          /\ ret.block.spans[0] = <<maxSize - 1>>
          /\ ret.block.spans[1] = [j \in 1..(scen.k - 1) |-> j - 1]
          /\ isValid(ret.block)
          /\ isSplit(ret.block)
    /\ scen.phase = 6 =>
          /\ ret.op = "ReadBlock" /\ ret.status = "ok" /\ ret.size = scen.k
          /\ Len(ret.block.spans[0]) = 1
          /\ Len(ret.block.spans[1]) = scen.k - 1
          /\ isValid(ret.block)
          /\ isSplit(ret.block)

\* C9 (step part): every call of the sequence succeeds for 2 <= k <= C.
C9_SplitStep ==
    /\ (scen.phase = 3 /\ ReserveCall /\ ret'.size >= 2 /\ ret'.size <= maxSize)
          => (ret'.status = "ok" /\ scen'.phase = 4)
    /\ (scen.phase = 4 /\ CommitCall /\ ret'.size = scen.k)
          => (ret'.status = "ok" /\ scen'.phase = 5)
    /\ (scen.phase = 5 /\ ReadBlockCall /\ ret'.size = scen.k)
          => (ret'.status = "ok" /\ scen'.phase = 6)

\* C9: split correctness of the Wraparound sequence.
C9_SplitCorrect == [](C9_SplitInv) /\ [][C9_SplitStep]_vars

\* The whole sequence has run with the largest k: a block of the whole
\* buffer, split after its first slot, has been reserved, committed and read.
C9_Witness ==
    /\ maxSize >= 3
    /\ scen.phase = 6
    /\ scen.k = maxSize

\* C10 (state part): after Reset the indices and counters are zero, so
\* ReservableSize() == capacity, CommitableSize() == 0, ReadableSize() == 0.
C10_ResetInv ==
    ret.op = "Reset" =>
        /\ ret.status = "ok"
        /\ _readIndex = 0 /\ _writeIndex = 0 /\ _reserved = 0 /\ _committed = 0
        /\ ReservableSize = maxSize
        /\ CommitableSize = 0
        /\ ReadableSize = 0

\* C10 (step part): a Reset right after a Reset, or on a FIFO that is as
\* constructed, changes nothing of the FIFO.
C10_ResetStep ==
    (Reset /\ (ret.op = "Reset" \/ ret.op = "NoCopyRingFifo"))
        => UNCHANGED <<maxSize, _ringBuffer, _readIndex, _writeIndex, _reserved, _committed>>

\* C10: Reset can be called in every state, zeroes the indices and counters,
\* and is idempotent.
C10_Reset == [](ENABLED Reset) /\ [](C10_ResetInv) /\ [][C10_ResetStep]_vars

\* Reset has been called on a FIFO that had been written to.
C10_Witness ==
    /\ ret.op = "Reset"
    /\ \E i \in DOMAIN _ringBuffer : _ringBuffer[i] # 0

\* The four fields a call may move.
Cursors == <<_readIndex, _writeIndex, _reserved, _committed>>

\* C11 (step part): Reserve(0) and ReadBlock(0) succeed, return the empty
\* block (both views empty, neither valid nor split) and leave _readIndex,
\* _writeIndex, _reserved and _committed as they were.
C11_ZeroStep ==
    (ret'.size = 0 /\ (ReserveCall \/ ReadBlockCall)) =>
        /\ ret'.status = "ok"
        /\ ret'.block.spans[0] = << >>
        /\ ret'.block.spans[1] = << >>
        /\ isValid(ret'.block) = FALSE
        /\ isSplit(ret'.block) = FALSE
        /\ UNCHANGED Cursors

\* C11 (state part): both calls can be made, and succeed, in every state.
C11_ZeroEnabled ==
    /\ ENABLED (Reserve(0) /\ ret'.status = "ok")
    /\ ENABLED (ReadBlock(0) /\ ret'.status = "ok")

\* C11: the zero-size requests are successful no-ops in every state.
C11_ZeroSize == [](C11_ZeroEnabled) /\ [][C11_ZeroStep]_vars

\* Reserve(0) has succeeded on a FIFO with no free slot and moved indices.
C11_Witness ==
    /\ maxSize >= 2
    /\ ret.op = "Reserve"
    /\ ret.size = 0
    /\ ret.status = "ok"
    /\ ReservableSize = 0
    /\ _committed > 0
    /\ _readIndex > 0

\* C12: ReservableSize() + CommitableSize() + ReadableSize() <= capacity, and
\* they add up to the capacity while nothing has been read since the last
\* Reset or the construction.
C12_SizesSum ==
    /\ ReservableSize + CommitableSize + ReadableSize <= maxSize
    /\ nRead = 0 => ReservableSize + CommitableSize + ReadableSize = maxSize

\* Nothing has been read yet and the FIFO holds free, reserved and committed slots.
C12_Witness ==
    /\ nRead = 0
    /\ ReservableSize > 0
    /\ CommitableSize > 0
    /\ ReadableSize > 0

\* C13: a successful Reserve(n) moves _writeIndex to (_writeIndex + n) mod
\* capacity, adds n to _reserved (CommitableSize), takes n off
\* ReservableSize, leaves _readIndex and _committed alone, and returns the n
\* slots that follow the old _writeIndex cyclically.
C13_ReserveStep ==
    (ret'.op = "Reserve" /\ ret'.status = "ok" /\ ReserveCall) =>
        /\ maxSize > 0 => _writeIndex' = (_writeIndex + ret'.size) % maxSize
        /\ maxSize = 0 => _writeIndex' = _writeIndex
        /\ _reserved' = _reserved + ret'.size
        /\ CommitableSize' = CommitableSize + ret'.size
        /\ ReservableSize' = ReservableSize - ret'.size
        /\ _readIndex' = _readIndex
        /\ _committed' = _committed
        /\ BlockSlots(ret'.block) = Walk(_writeIndex, ret'.size)

\* C13: the effect of a successful Reserve(n).
C13_ReserveEffect == [][C13_ReserveStep]_vars

\* Reserve has returned the slots up to the end of the buffer, which put
\* _writeIndex back to 0 behind a moved _readIndex.
C13_Witness ==
    /\ ret.op = "Reserve"
    /\ ret.status = "ok"
    /\ ret.size >= 2
    /\ isSplit(ret.block) = FALSE
    /\ _writeIndex = 0
    /\ _readIndex > 0

\* C14: a successful ReadBlock(n) returns the n slots that follow the old
\* _readIndex cyclically, moves _readIndex to (_readIndex + n) mod capacity,
\* takes n off _committed (ReadableSize), adds n to ReservableSize in the
\* same step, and leaves _writeIndex and _reserved alone.
C14_ReadStep ==
    (ret'.op = "ReadBlock" /\ ret'.status = "ok" /\ ReadBlockCall) =>
        /\ BlockSlots(ret'.block) = Walk(_readIndex, ret'.size)
        /\ maxSize > 0 => _readIndex' = (_readIndex + ret'.size) % maxSize
        /\ maxSize = 0 => _readIndex' = _readIndex
        /\ _committed' = _committed - ret'.size
        /\ ReadableSize' = ReadableSize - ret'.size
        /\ ReservableSize' = ReservableSize + ret'.size
        /\ _writeIndex' = _writeIndex
        /\ _reserved' = _reserved

\* C14: the effect of a successful ReadBlock(n).
C14_ReadEffect == [][C14_ReadStep]_vars

\* ReadBlock has returned a split block while reserved elements were
\* outstanding.
C14_Witness ==
    /\ ret.op = "ReadBlock"
    /\ ret.status = "ok"
    /\ ret.size >= 2
    /\ isSplit(ret.block)
    /\ _reserved > 0

\* C15 (step part): a successful Commit(n) takes n off _reserved, adds n to
\* _committed and changes nothing else: the indices, ReservableSize() and the
\* buffer contents stay.
C15_CommitStep ==
    (ret'.op = "Commit" /\ ret'.status = "ok" /\ CommitCall) =>
        /\ _reserved' = _reserved - ret'.size
        /\ _committed' = _committed + ret'.size
        /\ ReservableSize' = ReservableSize
        /\ UNCHANGED <<maxSize, _ringBuffer, _readIndex, _writeIndex>>

\* C15 (state part): after Reserve(C) and Commit(b) on a FIFO of capacity C,
\* ReservableSize() == 0 and CommitableSize() == C - b.
C15_CommitInv ==
    (/\ ret.op = "Commit" /\ ret.status = "ok"
     /\ nRead = 0 /\ Len(resvLog) = maxSize /\ nCommitted = ret.size)
        => (ReservableSize = 0 /\ CommitableSize = maxSize - ret.size)

\* C15: Commit only moves elements from reserved to committed.
C15_CommitEffect == [](C15_CommitInv) /\ [][C15_CommitStep]_vars

\* Part of a fully reserved FIFO has been committed.
C15_Witness ==
    /\ ret.op = "Commit"
    /\ ret.status = "ok"
    /\ ret.size > 0
    /\ nRead = 0
    /\ Len(resvLog) = maxSize
    /\ nCommitted = ret.size
    /\ CommitableSize > 0

\* The whole buffer as one view.
WholeBuffer == [k \in 1..maxSize |-> k - 1]

\* C16 (step part): on a fresh or reset FIFO of capacity C, Reserve(C)
\* succeeds.
C16_WholeStep ==
    (/\ _readIndex = 0 /\ _writeIndex = 0 /\ _reserved = 0 /\ _committed = 0
     /\ ret'.op = "Reserve" /\ ret'.size = maxSize /\ ReserveCall)
        => ret'.status = "ok"

\* C16 (state part): that Reserve(C) returns one unsplit view of the whole
\* buffer and leaves _writeIndex at 0; once the C elements are committed,
\* ReadBlock(C) returns them all in one unsplit view, after which
\* ReservableSize() == C and both indices are back at 0.
C16_WholeInv ==
    /\ (/\ maxSize >= 1 /\ ret.op = "Reserve" /\ ret.status = "ok"
        /\ ret.size = maxSize /\ Len(resvLog) = maxSize)
          => /\ ret.block.spans[0] = WholeBuffer
             /\ ret.block.spans[1] = << >>
             /\ isValid(ret.block)
             /\ isSplit(ret.block) = FALSE
             /\ _writeIndex = 0
    /\ (/\ maxSize >= 1 /\ ret.op = "ReadBlock" /\ ret.status = "ok"
        /\ ret.size = maxSize /\ nRead = maxSize)
          => /\ ret.block.spans[0] = WholeBuffer
             /\ ret.block.spans[1] = << >>
             /\ isValid(ret.block)
             /\ isSplit(ret.block) = FALSE
             /\ BlockData(ret.block) = [k \in 1..maxSize |-> _ringBuffer[k - 1]]
             /\ ReservableSize = maxSize
             /\ _readIndex = 0
             /\ _writeIndex = 0

\* C16: the whole capacity can be reserved, committed and read as one block.
C16_WholeCapacity == [](C16_WholeInv) /\ [][C16_WholeStep]_vars

\* The whole buffer has been reserved, filled, committed and read in one
\* block each.
C16_Witness ==
    /\ maxSize >= 2
    /\ ret.op = "ReadBlock"
    /\ ret.status = "ok"
    /\ ret.size = maxSize
    /\ nRead = maxSize
    /\ filled
    /\ Len(readLog) = maxSize

\* C17: a block a successful Reserve(n) or ReadBlock(n) returns from index i:
\* the views' lengths add up to n; isValid() iff n > 0; isSplit() iff
\* n > capacity - i, and then the views are slots i..capacity-1 and slots
\* 0..n-(capacity-i)-1; otherwise the one view is slots i..i+n-1 (also when
\* n == capacity - i); the views share no slot; isSplit() implies isValid().
BlockShape(b, i, n) ==
    /\ Len(b.spans[0]) + Len(b.spans[1]) = n
    /\ isValid(b) <=> (n > 0)
    /\ isSplit(b) <=> (n > maxSize - i)
    /\ isSplit(b) => /\ b.spans[0] = [k \in 1..(maxSize - i) |-> i + (k - 1)]
                     /\ b.spans[1] = [k \in 1..(n - (maxSize - i)) |-> k - 1]
    /\ isSplit(b) = FALSE => /\ b.spans[0] = [k \in 1..n |-> i + (k - 1)]
                             /\ b.spans[1] = << >>
    /\ Range(b.spans[0]) \cap Range(b.spans[1]) = {}
    /\ Cardinality(Range(BlockSlots(b))) = n
    /\ Range(BlockSlots(b)) \subseteq 0..(maxSize - 1)
    /\ isSplit(b) => isValid(b)

C17_ShapeStep ==
    /\ (ret'.op = "Reserve" /\ ret'.status = "ok" /\ ReserveCall)
          => BlockShape(ret'.block, _writeIndex, ret'.size)
    /\ (ret'.op = "ReadBlock" /\ ret'.status = "ok" /\ ReadBlockCall)
          => BlockShape(ret'.block, _readIndex, ret'.size)

\* C17: the shape of every block Reserve and ReadBlock return.
C17_BlockShape == [][C17_ShapeStep]_vars

\* A split block of the whole buffer has been returned.
C17_Witness ==
    /\ maxSize >= 3
    /\ ret.status = "ok"
    /\ ret.op = "Reserve"
    /\ isSplit(ret.block)
    /\ BlockLen(ret.block) = maxSize
    /\ Len(ret.block.spans[0]) >= 2

\* C18: with capacity >= 1, _readIndex and _writeIndex are in [0, capacity)
\* and _writeIndex == (_readIndex + _reserved + _committed) mod capacity.
C18_Indices ==
    maxSize >= 1 =>
        /\ _readIndex \in 0..(maxSize - 1)
        /\ _writeIndex \in 0..(maxSize - 1)
        /\ _writeIndex = (_readIndex + _reserved + _committed) % maxSize

\* The FIFO is full behind a moved read index, so both indices coincide
\* away from 0.
C18_Witness ==
    /\ _reserved + _committed = maxSize
    /\ _reserved > 0
    /\ _committed > 0
    /\ _readIndex > 0
    /\ _writeIndex = _readIndex

\* C19 (step part): Reserve(n) and ReadBlock(n) either fail their own check
\* and change nothing, or call GetDataBlock with n <= capacity, which then
\* does not throw; so no call fails after _reserved or _committed was changed.
C19_GuardStep ==
    /\ (ret'.op = "Reserve" /\ ReserveCall) =>
          \/ /\ ret'.size > ReservableSize
             /\ CallFailed(ret')
             /\ UNCHANGED fifoVars
          \/ /\ ret'.size <= ReservableSize
             /\ ret'.size <= RingBufferSize
             /\ GetDataBlock(_writeIndex, ret'.size).status = "ok"
             /\ ret'.status = "ok"
    /\ (ret'.op = "ReadBlock" /\ ReadBlockCall) =>
          \/ /\ ret'.size > _committed
             /\ CallFailed(ret')
             /\ UNCHANGED fifoVars
          \/ /\ ret'.size <= _committed
             /\ ret'.size <= RingBufferSize
             /\ GetDataBlock(_readIndex, ret'.size).status = "ok"
             /\ ret'.status = "ok"

\* C19 (state part): what the two checks let through is never more than the
\* capacity, and ReadBlock never reports the helper's overflow_error.
C19_GuardInv ==
    /\ ReservableSize <= RingBufferSize
    /\ _committed <= RingBufferSize
    /\ ret.op = "ReadBlock" => ret.status # "overflow_error"

\* C19: GetDataBlock's size guard is never triggered through Reserve or
\* ReadBlock.
C19_GuardNeverHit == [](C19_GuardInv) /\ [][C19_GuardStep]_vars

\* ReadBlock has handed out a block as large as the buffer, starting away
\* from index 0.
C19_Witness ==
    /\ maxSize >= 2
    /\ ret.op = "ReadBlock"
    /\ ret.status = "ok"
    /\ ret.size = maxSize
    /\ _readIndex > 0

\* C20: ReadBlock retires what it hands out.  In a successful Reserve(m)
\* right after a successful ReadBlock(n), n > 0: the slots just read are free
\* already, the block reserved overlaps them exactly when m exceeds the free
\* space there was before the read, a Reserve of all the free space takes
\* them all, and the slots counted in _reserved or _committed are never part
\* of the block.
C20_RetireStep ==
    (/\ ret.op = "ReadBlock" /\ ret.status = "ok" /\ ret.size > 0
     /\ ReserveCall /\ ret'.status = "ok") =>
        /\ outDataBlock' = ret.block
        /\ Range(BlockSlots(ret.block)) \subseteq Range(FreeSeq)
        /\ (Range(BlockSlots(ret'.block)) \cap Range(BlockSlots(ret.block)) # {})
              <=> (ret'.size > ReservableSize - ret.size)
        /\ ret'.size = ReservableSize
              => Range(BlockSlots(ret.block)) \subseteq Range(BlockSlots(ret'.block))
        /\ Range(BlockSlots(ret'.block)) \cap Range(CommittedSeq) = {}
        /\ Range(BlockSlots(ret'.block)) \cap Range(ReservedSeq) = {}

\* C20: a view ReadBlock returned is not protected from the next Reserve.
C20_ReadRetires == [][C20_RetireStep]_vars

\* The FIFO was full, ReadBlock handed out a view, and the Reserve called
\* right after it returned the very same slots.
C20_Witness ==
    /\ maxSize >= 2
    /\ ret.op = "Reserve"
    /\ ret.status = "ok"
    /\ BlockLen(outDataBlock) > 0
    /\ Range(BlockSlots(ret.block)) = Range(BlockSlots(outDataBlock))
    /\ _reserved + _committed = maxSize
    /\ _committed > 0

----------------------------------------------------------------------------
\* C21 (state part): in every state the caller can commit everything that is
\* reserved, and can read everything that is committed, and both calls
\* succeed.
C21_DrainEnabled ==
    /\ ENABLED (CommitAll /\ ret'.status = "ok")
    /\ ENABLED (ReadAll /\ ret'.status = "ok")

\* The FIFO is drained: nothing reserved, nothing committed, the whole
\* capacity reservable, and the two indices meet.
C21_Drained ==
    /\ _reserved = 0
    /\ _committed = 0
    /\ ReservableSize = maxSize
    /\ _readIndex = _writeIndex

\* C21 (step part): Commit(CommitableSize()) never fails and leaves nothing
\* reserved; ReadBlock(ReadableSize()) never fails and leaves nothing
\* committed; called with nothing reserved, as right after that Commit, it
\* leaves the FIFO drained.
C21_DrainStep ==
    /\ (ret'.op = "Commit" /\ ret'.size = CommitableSize /\ CommitAll) =>
          /\ ret'.status = "ok"
          /\ _reserved' = 0
          /\ _committed' = _committed + _reserved
          /\ _readIndex' = _readIndex
          /\ _writeIndex' = _writeIndex
    /\ (ret'.op = "ReadBlock" /\ ret'.size = ReadableSize /\ ReadAll) =>
          /\ ret'.status = "ok"
          /\ BlockLen(ret'.block) = _committed
          /\ _committed' = 0
          /\ _reserved' = _reserved
          /\ (_reserved = 0) => C21_Drained'

\* C21 (progress part): under the draining caller the p-th element reserved
\* is eventually read, for every p.
C21_EveryElementRead ==
    \A p \in 1..(MaxLog + 1) : (Len(resvLog) >= p) ~> (nRead >= p)

====
